---- MODULE Spec2Model ----
(***************************************************************************)
(* Model of the exchange-rate acquisition and conversion subsystem of the  *)
(* currency-converter backend (ExchangeRatesService and its callers).      *)
(*                                                                         *)
(* Every await of the service is a separate step, so concurrent requests   *)
(* interleave exactly where the Node.js event loop lets them interleave.   *)
(* Numbers are kept exact: stored rates are integers, computed amounts are *)
(* rationals <<numerator, denominator>>.                                   *)
(***************************************************************************)
EXTENDS Integers, Sequences, FiniteSets, TLC

(* ------------------------------ bounds -------------------------------- *)
\* number of requests handled in one behaviour (they may all be in flight)
NumCalls == 2
\* the clock runs from 0 to MaxTime
MaxTime == 2
\* the provider quotes rates in -1..MaxRate, zero and negatives included
MaxRate == 2
\* request amounts are 0..MaxAmount
MaxAmount == 1

(* ------------------------- program constants -------------------------- *)
\* exchange-rates.service.ts:9
baseCurrency == "USD"
\* exchange-rates.service.ts:10, cut down to two of the ten codes
supportedCurrencies == <<"USD", "EUR">>
\* exchange-rates.service.ts:12, in clock ticks (one tick = 30 minutes)
cacheExpirationTime == 2

(* --------------------------- input domains ---------------------------- *)
None == "none"
Supported == {supportedCurrencies[i] : i \in DOMAIN supportedCurrencies}
\* codes the provider may quote: the whitelist and one code outside it
ProviderCurrencies == Supported \cup {"XYZ"}
\* base currency the provider may answer with
ProviderBases == {"USD", "EUR"}
Users == {1, 2}
Calls == 1..NumCalls

VARIABLES
    now,           \* the wall clock (Date.now), in ticks
    store,         \* table ExchangeRate: a set of rows
    transactions,  \* table Transaction: a set of rows
    nextTxId,      \* autoincrement of Transaction.id
    call,          \* per request: position and locals of the handler
    observed,      \* history: <<currency, value>> pairs the provider has returned
    lastWrite,     \* history: the last upsert applied to each (base, currency)
    listing,       \* the last answer of GET user/transactions, per user
    conv,          \* inputs and results of the conversion arithmetic on its own
    users,         \* table User: a set of rows
    nextUserId,    \* autoincrement of User.id
    usedTokens,    \* Redis keys used_token:<nonce>, with their expiry
    authCall       \* per login/register request: position and locals

authVars == <<users, nextUserId, usedTokens, authCall>>

vars == <<now, store, transactions, nextTxId, call, observed, lastWrite, listing, conv,
          users, nextUserId, usedTokens, authCall>>

(* ----------------------------- rationals ------------------------------ *)
\* JavaScript numbers, kept exact: an integer n stands for itself, a computed
\* amount is the normalised fraction <<n, d>> with d > 0.
Abs(n) == IF n < 0 THEN -n ELSE n

RECURSIVE GCD(_, _)
GCD(a, b) == IF b = 0 THEN a ELSE GCD(b, a % b)

Rat(n, d) ==
    LET g == GCD(Abs(n), Abs(d))
        s == IF d < 0 THEN -1 ELSE 1
    IN  <<(s * n) \div g, (s * d) \div g>>

FromInt(n) == <<n, 1>>
RatDiv(x, y) == Rat(x[1] * y[2], x[2] * y[1])
RatMul(x, y) == Rat(x[1] * y[1], x[2] * y[2])

(* ------------------------------ mappings ------------------------------ *)
\* a JavaScript object used as a map: a function whose domain is its keys
EmptyMap == [k \in {} |-> 0]
Put(m, k, v) == [x \in (DOMAIN m) \cup {k} |-> IF x = k THEN v ELSE m[x]]
\* `if (m[k])`: the key is there and its value is not 0
Truthy(m, k) == k \in DOMAIN m /\ m[k] # 0

NoRates == [base |-> None, rates |-> EmptyMap, timestamp |-> -1]
NoFetch == [base |-> None, rates |-> EmptyMap, updateTime |-> -1]
NoResult == [id |-> 0, fromCurrency |-> None, toCurrency |-> None, amount |-> 0,
             convertedAmount |-> <<0, 1>>, exchangeRate |-> <<0, 1>>, timestamp |-> -1]

(* ----------------------------- Rate Store ----------------------------- *)
\* variant: insert, and leave the row alone when the pair already has one
upsert_keepsExisting(rows, base, currency, rate, updateTime) ==
    IF \E r \in rows : r.baseCurrency = base /\ r.currency = currency
    THEN rows
    ELSE rows \cup {[baseCurrency |-> base, currency |-> currency,
                     rate |-> rate, lastUpdated |-> updateTime]}

\* prisma.exchangeRate.upsert under @@unique([baseCurrency, currency]):
\* update the row of the pair when there is one, create it otherwise.
upsert(rows, base, currency, rate, updateTime) ==
    IF \E r \in rows : r.baseCurrency = base /\ r.currency = currency
    THEN {IF r.baseCurrency = base /\ r.currency = currency
          THEN [r EXCEPT !.rate = rate, !.lastUpdated = updateTime]
          ELSE r : r \in rows}
    ELSE rows \cup {[baseCurrency |-> base, currency |-> currency,
                     rate |-> rate, lastUpdated |-> updateTime]}

\* all orders of a finite set of rows
Orders(S) == {s \in [1..Cardinality(S) -> S] : \A r \in S : \E i \in DOMAIN s : s[i] = r}

\* variant: the rows come oldest first
getExchangeRatesFromDb_ascending(rows) ==
    {s \in Orders({r \in rows : r.baseCurrency = baseCurrency}) :
        \A i \in 1..(Len(s) - 1) : s[i].lastUpdated <= s[i + 1].lastUpdated}

\* findMany({where: {baseCurrency}, orderBy: {lastUpdated: 'desc'}}): the rows
\* of the fixed base, newest first; rows of equal age come in any order.
getExchangeRatesFromDb(rows) ==
    {s \in Orders({r \in rows : r.baseCurrency = baseCurrency}) :
        \A i \in 1..(Len(s) - 1) : s[i].lastUpdated >= s[i + 1].lastUpdated}

(* ------------------------- Rate Cache Manager ------------------------- *)
RECURSIVE FormatLoop(_, _)
FormatLoop(rates, formattedRates) ==
    IF rates = <<>> THEN formattedRates
    ELSE FormatLoop(Tail(rates), Put(formattedRates, Head(rates).currency, Head(rates).rate))

\* database rows -> API response
formatExchangeRates(rates, clock) ==
    [base |-> baseCurrency,
     rates |-> FormatLoop(rates, EmptyMap),
     timestamp |-> IF Len(rates) > 0 THEN rates[1].lastUpdated ELSE clock]

\* `for (const currency of supportedCurrencies) if (rates[currency]) ...`
RECURSIVE FilterLoop(_, _, _)
FilterLoop(i, rates, supportedRates) ==
    IF i > Len(supportedCurrencies) THEN supportedRates
    ELSE FilterLoop(i + 1, rates,
                    IF Truthy(rates, supportedCurrencies[i])
                    THEN Put(supportedRates, supportedCurrencies[i], rates[supportedCurrencies[i]])
                    ELSE supportedRates)

\* variant: the base currency always gets the rate 1, quoted or not
filterSupported_defaultsBase(rates) == Put(FilterLoop(1, rates, EmptyMap), baseCurrency, 1)

filterSupported(rates) == FilterLoop(1, rates, EmptyMap)

\* variant: any snapshot makes the cache valid, whatever its age
cacheValid_ignoresAge(cachedRates, clock) == Len(cachedRates) > 0

\* the cache is still valid: now - mostRecentUpdate < cacheExpirationTime
cacheValid(cachedRates, clock) ==
    /\ Len(cachedRates) > 0
    /\ clock - cachedRates[1].lastUpdated < cacheExpirationTime

(* -------------------------- Conversion Engine ------------------------- *)
\* variant: the amount is multiplied by the source rate instead of divided
valueInBaseCurrency_multiplies(amount, fromRate) == RatMul(amount, FromInt(fromRate))

valueInBaseCurrency(amount, fromRate) == RatDiv(amount, FromInt(fromRate))
\* variant: the target rate is added to the base value instead of multiplying it
convertedAmount_adds(amount, fromRate, toRate) ==
    LET v == valueInBaseCurrency(amount, fromRate)
    IN  Rat(v[1] + toRate * v[2], v[2])

convertedAmount(amount, fromRate, toRate) ==
    RatMul(valueInBaseCurrency(amount, fromRate), FromInt(toRate))
\* variant: the quotient is taken the other way round
exchangeRate_inverted(fromRate, toRate) == RatDiv(FromInt(fromRate), FromInt(toRate))

\* variant: the two rates are multiplied
exchangeRate_multiplies(fromRate, toRate) == RatMul(FromInt(toRate), FromInt(fromRate))

exchangeRate(fromRate, toRate) == RatDiv(FromInt(toRate), FromInt(fromRate))

\* variant: only the source currency is checked
isSupported_fromOnly(fromCurrency, toCurrency) == fromCurrency \in Supported

isSupported(fromCurrency, toCurrency) ==
    fromCurrency \in Supported /\ toCurrency \in Supported

(* ------------------------------ requests ------------------------------ *)
\* A request in flight: where its handler stands (pc) and the handler's
\* locals.  The locals are gone once the handler has returned or thrown
\* (pc = "done"); what stays is the answer: rates/source for getExchangeRates,
\* result for convertCurrency, error for either.  pending holds the upserts
\* the call has issued and the database has not settled yet; fetchedAt is the
\* time at which the provider answered the call (-1: it has not).
IdleCall ==
    [op |-> "idle", pc |-> "idle", userId |-> 0,
     fromCurrency |-> None, toCurrency |-> None, amount |-> 0,
     cachedRates |-> <<>>,
     providerCalls |-> 0, providerFailed |-> FALSE, fetchedAt |-> -1,
     fetched |-> NoFetch, pending |-> {},
     rates |-> NoRates, source |-> None,
     fromRate |-> 0, toRate |-> 0,
     result |-> NoResult, error |-> None]

ErrRates == "Failed to fetch exchange rates"
ErrUnsupported == "Unsupported currency"
ErrNoRate == "Exchange rate not available"
ErrStorage == "StorageError"
\* AuthService: UnauthorizedException, BadRequestException, ConflictException,
\* and the rejection of prisma.user.create under User.email @unique
ErrInvalidCredentials == "Invalid credentials"
ErrNonceUsed == "This request has already been processed"
ErrConflict == "User with this email already exists"
ErrUnique == "Unique constraint failed on the fields: (email)"

\* The HTTP status of a request that ended with an error.  No controller
\* catches anything, so the framework answers: an HttpException with its own
\* status, any other error (a plain Error, a database rejection) with 500.
httpStatus(error) ==
    CASE error = ErrInvalidCredentials -> 401
      [] error = ErrNonceUsed -> 400
      [] error = ErrConflict -> 409
      [] error = ErrRates -> 500
      [] OTHER -> 500

\* the message of the error response: that of an HttpException, and the fixed
\* text of the framework for any other error
httpMessage(error) ==
    IF error \in {ErrInvalidCredentials, ErrNonceUsed, ErrConflict, ErrRates}
    THEN error
    ELSE "Internal server error"

\* the handler is over: drop its locals
finished(c) == [c EXCEPT !.pc = "done", !.cachedRates = <<>>, !.fetched = NoFetch]

\* getExchangeRates threw: the outer catch wraps every error alike, and
\* convertCurrency lets it through.
ratesThrew(c) == finished([c EXCEPT !.error = ErrRates])

\* variant: only the source rate is looked at; a missing target rate counts as 1
ratesReturned_fromOnly(c, r, src) ==
    IF c.op = "rates"
    THEN finished([c EXCEPT !.rates = r, !.source = src])
    ELSE IF ~Truthy(r.rates, c.fromCurrency)
    THEN finished([c EXCEPT !.rates = r, !.source = src, !.error = ErrNoRate])
    ELSE LET to == IF c.toCurrency \in DOMAIN r.rates THEN r.rates[c.toCurrency] ELSE 1
         IN  [c EXCEPT !.pc = "create", !.rates = r, !.source = src,
                       !.cachedRates = <<>>, !.fetched = NoFetch,
                       !.fromRate = r.rates[c.fromCurrency], !.toRate = to,
                       !.result = [NoResult EXCEPT
                           !.fromCurrency = c.fromCurrency,
                           !.toCurrency = c.toCurrency,
                           !.amount = c.amount,
                           !.convertedAmount = convertedAmount(FromInt(c.amount),
                               r.rates[c.fromCurrency], to),
                           !.exchangeRate = exchangeRate(r.rates[c.fromCurrency], to)]]

\* getExchangeRates returned r: the controller answers with it, convertCurrency
\* goes on to the rate lookup and the arithmetic, up to its next await.
ratesReturned(c, r, src) ==
    IF c.op = "rates"
    THEN finished([c EXCEPT !.rates = r, !.source = src])
    ELSE IF ~Truthy(r.rates, c.fromCurrency) \/ ~Truthy(r.rates, c.toCurrency)
    THEN finished([c EXCEPT !.rates = r, !.source = src, !.error = ErrNoRate])
    ELSE [c EXCEPT !.pc = "create", !.rates = r, !.source = src,
                   !.cachedRates = <<>>, !.fetched = NoFetch,
                   !.fromRate = r.rates[c.fromCurrency],
                   !.toRate = r.rates[c.toCurrency],
                   !.result = [NoResult EXCEPT
                       !.fromCurrency = c.fromCurrency,
                       !.toCurrency = c.toCurrency,
                       !.amount = c.amount,
                       !.convertedAmount = convertedAmount(FromInt(c.amount),
                           r.rates[c.fromCurrency], r.rates[c.toCurrency]),
                       !.exchangeRate = exchangeRate(r.rates[c.fromCurrency],
                           r.rates[c.toCurrency])]]

\* variant: the inner catch rethrows without looking at the rows read
apiFailed_rethrows(c, clock) == ratesThrew(c)

\* variant: the inner catch answers from the rows read even when there are none
apiFailed_alwaysFormats(c, clock) ==
    ratesReturned(c, formatExchangeRates(c.cachedRates, clock), "fallback")

\* the inner catch: fall back to the rows read at the start, if any
apiFailed(c, clock) ==
    IF Len(c.cachedRates) > 0
    THEN ratesReturned(c, formatExchangeRates(c.cachedRates, clock), "fallback")
    ELSE ratesThrew(c)

(* --------------------------- authentication --------------------------- *)
\* what a login or register request may carry
Emails == {"a@example.com", "b@example.com"}
Passwords == {"password1", "password2"}
Nonces == {"n1", "n2"}

\* storeToken(nonce, user.id, 86400): a day, in clock ticks of 30 minutes
tokenTtl == 48

\* bcrypt.hash and bcrypt.compare (the salt is left out)
hash(password) == <<"bcrypt", password>>
compare(password, hashed) == hashed = hash(password)

\* jwtService.sign({sub, email, iat})
sign(sub, email, iat) == <<"jwt", sub, email, iat>>

\* RedisService.isTokenUsed: EXISTS used_token:<token>
isTokenUsed(tokens, token, clock) ==
    token \in DOMAIN tokens /\ clock < tokens[token].expiresAt

\* RedisService.storeToken: SETEX used_token:<token> ttl userId
storeToken(tokens, token, userId, ttl, clock) ==
    Put(tokens, token, [userId |-> userId, expiresAt |-> clock + ttl])

\* prisma.user.findUnique({where: {email}}): the rows found (none or one)
findUnique(rows, email) == {u \in rows : u.email = email}

NoUser == [id |-> 0, email |-> None]
NoToken == <<>>

\* A login or register request in flight: the DTO, the handler's position and
\* locals, and its answer (access_token and user, or error).
IdleAuth ==
    [op |-> "idle", pc |-> "idle", email |-> None, password |-> None, nonce |-> None,
     user |-> NoUser, isTokenUsed |-> FALSE, access_token |-> NoToken, error |-> None]

(* ------------------------------- state -------------------------------- *)
Keys == ProviderBases \X Supported
NoWrite == [rate |-> 0, lastUpdated |-> -1]
IdleConv == [stage |-> "off", a |-> None, b |-> None, x |-> <<0, 1>>,
             rates |-> EmptyMap, there |-> <<0, 1>>, rate |-> <<0, 1>>,
             back |-> <<0, 1>>]

Init ==
    /\ now = 0
    /\ store = {}
    /\ transactions = {}
    /\ nextTxId = 1
    /\ call = [p \in Calls |-> IdleCall]
    /\ observed = {}
    /\ lastWrite = [k \in Keys |-> NoWrite]
    /\ listing = [u \in Users |-> {}]
    /\ conv = IdleConv
    /\ users = {}
    /\ nextUserId = 1
    /\ usedTokens = EmptyMap
    /\ authCall = [p \in Calls |-> IdleAuth]

(* ------------------------------ actions ------------------------------- *)
\* Request slots are interchangeable: a new request takes the lowest free one.
FreeSlot(p) ==
    /\ call[p].pc = "idle"
    /\ \A q \in Calls : q < p => call[q].pc # "idle"

\* GET exchange-rates: ExchangeRatesController.getExchangeRates
GetRatesRequest(p) ==
    /\ FreeSlot(p)
    /\ call' = [call EXCEPT ![p] = [@ EXCEPT !.op = "rates", !.pc = "readDb"]]
    /\ UNCHANGED <<now, store, transactions, nextTxId, observed, lastWrite, listing, conv, authVars>>

\* POST exchange-rates/convert: the whitelist check of convertCurrency, then
\* the call of getExchangeRates
ConvertRequest(p, userId, fromCurrency, toCurrency, amount) ==
    /\ FreeSlot(p)
    /\ call' = [call EXCEPT ![p] =
           IF ~isSupported(fromCurrency, toCurrency)
           THEN finished([@ EXCEPT !.op = "convert", !.userId = userId,
                          !.fromCurrency = fromCurrency, !.toCurrency = toCurrency,
                          !.amount = amount, !.error = ErrUnsupported])
           ELSE [@ EXCEPT !.op = "convert", !.pc = "readDb", !.userId = userId,
                          !.fromCurrency = fromCurrency, !.toCurrency = toCurrency,
                          !.amount = amount]]
    /\ UNCHANGED <<now, store, transactions, nextTxId, observed, lastWrite, listing, conv, authVars>>

\* await this.getExchangeRatesFromDb() answers
ReadDb(p) ==
    /\ call[p].pc = "readDb"
    /\ \E rows \in getExchangeRatesFromDb(store) :
           call' = [call EXCEPT ![p] = [@ EXCEPT !.pc = "check", !.cachedRates = rows]]
    /\ UNCHANGED <<now, store, transactions, nextTxId, observed, lastWrite, listing, conv, authVars>>

\* variant: a failed read counts as an empty cache and the provider is asked
ReadDbFail_fetches(p) ==
    /\ call[p].pc = "readDb"
    /\ call' = [call EXCEPT ![p] = [@ EXCEPT !.pc = "fetch", !.providerCalls = @ + 1]]
    /\ UNCHANGED <<now, store, transactions, nextTxId, observed, lastWrite, listing, conv, authVars>>

\* await this.getExchangeRatesFromDb() rejects: straight to the outer catch
ReadDbFail(p) ==
    /\ call[p].pc = "readDb"
    /\ call' = [call EXCEPT ![p] = ratesThrew(@)]
    /\ UNCHANGED <<now, store, transactions, nextTxId, observed, lastWrite, listing, conv, authVars>>

\* lines 31-44: answer from a valid cache, or send the provider request
CheckCache(p) ==
    /\ call[p].pc = "check"
    /\ call' = [call EXCEPT ![p] =
           IF cacheValid(@.cachedRates, now)
           THEN ratesReturned(@, formatExchangeRates(@.cachedRates, now), "cache")
           ELSE [@ EXCEPT !.pc = "fetch", !.providerCalls = @ + 1]]
    /\ UNCHANGED <<now, store, transactions, nextTxId, observed, lastWrite, listing, conv, authVars>>

\* axios.get answers {base, rates, timestamp}: filter, then issue every upsert.
\* note: whether the specification keeps the history variable observed.
ProviderRespond(p, base, rates, timestamp, note) ==
    /\ call[p].pc = "fetch"
    /\ LET supportedRates == filterSupported(rates)
       IN  call' = [call EXCEPT ![p] =
               [@ EXCEPT !.pc = "upsert", !.fetchedAt = now,
                         !.fetched = [base |-> base, rates |-> supportedRates,
                                      updateTime |-> timestamp],
                         !.pending = {[baseCurrency |-> base, currency |-> c,
                                       rate |-> supportedRates[c],
                                       lastUpdated |-> timestamp] :
                                      c \in DOMAIN supportedRates}]]
    /\ observed' = IF note THEN observed \cup {<<c, rates[c]>> : c \in DOMAIN rates}
                         ELSE observed
    /\ UNCHANGED <<now, store, transactions, nextTxId, lastWrite, listing, conv, authVars>>

\* variant: when the provider fails the snapshots of the base are dropped
ProviderFail_dropsSnapshots(p) ==
    /\ call[p].pc = "fetch"
    /\ call' = [call EXCEPT ![p] = apiFailed([@ EXCEPT !.providerFailed = TRUE], now)]
    /\ store' = {r \in store : r.baseCurrency # baseCurrency}
    /\ UNCHANGED <<now, transactions, nextTxId, observed, lastWrite, listing, conv, authVars>>

\* variant: a failed request is sent once more before the inner catch decides
ProviderFail_retries(p) ==
    /\ call[p].pc = "fetch"
    /\ call' = [call EXCEPT ![p] =
           IF @.providerCalls < 2
           THEN [@ EXCEPT !.providerCalls = @ + 1]
           ELSE apiFailed([@ EXCEPT !.providerFailed = TRUE], now)]
    /\ UNCHANGED <<now, store, transactions, nextTxId, observed, lastWrite, listing, conv, authVars>>

\* axios.get rejects (network, 401/403/429, malformed body): the inner catch
ProviderFail(p) ==
    /\ call[p].pc = "fetch"
    /\ call' = [call EXCEPT ![p] = apiFailed([@ EXCEPT !.providerFailed = TRUE], now)]
    /\ UNCHANGED <<now, store, transactions, nextTxId, observed, lastWrite, listing, conv, authVars>>

\* the database applies one of the upserts issued by the call; the upserts of
\* a batch, and those of concurrent calls, are applied in any order
ApplyUpsert(p, u) ==
    /\ u \in call[p].pending
    /\ store' = upsert(store, u.baseCurrency, u.currency, u.rate, u.lastUpdated)
    /\ lastWrite' = [lastWrite EXCEPT ![<<u.baseCurrency, u.currency>>] =
           [rate |-> u.rate, lastUpdated |-> u.lastUpdated]]
    /\ call' = [call EXCEPT ![p] = [@ EXCEPT !.pending = @ \ {u}]]
    /\ UNCHANGED <<now, transactions, nextTxId, observed, listing, conv, authVars>>

\* one upsert rejects: Promise.all rejects at once and the call goes to the
\* inner catch, while the other upserts of the batch stay in flight
UpsertFail(p, u) ==
    /\ u \in call[p].pending
    /\ call' = [call EXCEPT ![p] =
           IF @.pc = "upsert"
           THEN apiFailed([@ EXCEPT !.pending = @ \ {u}], now)
           ELSE [@ EXCEPT !.pending = @ \ {u}]]
    /\ UNCHANGED <<now, store, transactions, nextTxId, observed, lastWrite, listing, conv, authVars>>

\* variant: a fetch that yields no supported rate counts as a failed fetch
FetchReturn_emptyIsFailure(p) ==
    /\ call[p].pc = "upsert"
    /\ call[p].pending = {}
    /\ LET f == call[p].fetched
       IN  call' = [call EXCEPT ![p] =
               IF f.rates = EmptyMap
               THEN apiFailed(@, now)
               ELSE ratesReturned(@, [base |-> f.base, rates |-> f.rates,
                                      timestamp |-> f.updateTime], "provider")]
    /\ UNCHANGED <<now, store, transactions, nextTxId, observed, lastWrite, listing, conv, authVars>>

\* Promise.all resolves: return the freshly fetched set
FetchReturn(p) ==
    /\ call[p].pc = "upsert"
    /\ call[p].pending = {}
    /\ LET f == call[p].fetched
       IN  call' = [call EXCEPT ![p] =
               ratesReturned(@, [base |-> f.base, rates |-> f.rates,
                                 timestamp |-> f.updateTime], "provider")]
    /\ UNCHANGED <<now, store, transactions, nextTxId, observed, lastWrite, listing, conv, authVars>>

\* variant: the result is returned but no row is written
CreateTransaction_noRow(p) ==
    /\ call[p].pc = "create"
    /\ call' = [call EXCEPT ![p] =
           finished([@ EXCEPT !.result = [@ EXCEPT !.id = nextTxId,
                                               !.timestamp = now]])]
    /\ nextTxId' = nextTxId + 1
    /\ UNCHANGED <<now, store, transactions, observed, lastWrite, listing, conv, authVars>>

\* variant: the row is written for a fixed user, not for the caller
CreateTransaction_fixedUser(p) ==
    /\ call[p].pc = "create"
    /\ LET c == call[p]
           row == [id |-> nextTxId, userId |-> 1,
                   fromCurrency |-> c.fromCurrency, toCurrency |-> c.toCurrency,
                   amount |-> c.amount,
                   convertedAmount |-> c.result.convertedAmount,
                   rate |-> c.result.exchangeRate,
                   createdAt |-> now]
       IN  /\ transactions' = transactions \cup {row}
           /\ call' = [call EXCEPT ![p] =
                  finished([@ EXCEPT !.result = [@ EXCEPT !.id = row.id,
                                                  !.timestamp = row.createdAt]])]
    /\ nextTxId' = nextTxId + 1
    /\ UNCHANGED <<now, store, observed, lastWrite, listing, conv, authVars>>

\* variant: the new row takes the place of the rows there were
CreateTransaction_replaces(p) ==
    /\ call[p].pc = "create"
    /\ LET c == call[p]
           row == [id |-> nextTxId, userId |-> c.userId,
                   fromCurrency |-> c.fromCurrency, toCurrency |-> c.toCurrency,
                   amount |-> c.amount,
                   convertedAmount |-> c.result.convertedAmount,
                   rate |-> c.result.exchangeRate,
                   createdAt |-> now]
       IN  /\ transactions' = {row}
           /\ call' = [call EXCEPT ![p] =
                  finished([@ EXCEPT !.result = [@ EXCEPT !.id = row.id,
                                                  !.timestamp = row.createdAt]])]
    /\ nextTxId' = nextTxId + 1
    /\ UNCHANGED <<now, store, observed, lastWrite, listing, conv, authVars>>

\* prisma.transaction.create answers: the row exists, the result is returned
CreateTransaction(p) ==
    /\ call[p].pc = "create"
    /\ LET c == call[p]
           row == [id |-> nextTxId, userId |-> c.userId,
                   fromCurrency |-> c.fromCurrency, toCurrency |-> c.toCurrency,
                   amount |-> c.amount,
                   convertedAmount |-> c.result.convertedAmount,
                   rate |-> c.result.exchangeRate,
                   createdAt |-> now]
       IN  /\ transactions' = transactions \cup {row}
           /\ call' = [call EXCEPT ![p] =
                  finished([@ EXCEPT !.result = [@ EXCEPT !.id = row.id,
                                                  !.timestamp = row.createdAt]])]
    /\ nextTxId' = nextTxId + 1
    /\ UNCHANGED <<now, store, observed, lastWrite, listing, conv, authVars>>

\* variant: the rejection is swallowed and the computed result is returned
CreateTransactionFail_swallows(p) ==
    /\ call[p].pc = "create"
    /\ call' = [call EXCEPT ![p] = finished(@)]
    /\ UNCHANGED <<now, store, transactions, nextTxId, observed, lastWrite, listing, conv, authVars>>

\* prisma.transaction.create rejects: the error leaves convertCurrency as it is
CreateTransactionFail(p) ==
    /\ call[p].pc = "create"
    /\ call' = [call EXCEPT ![p] = finished([@ EXCEPT !.result = NoResult,
                                                      !.error = ErrStorage])]
    /\ UNCHANGED <<now, store, transactions, nextTxId, observed, lastWrite, listing, conv, authVars>>

\* GET user/transactions, UserService.getUserTransactions: the rows owned by
\* the authenticated user (the step is left out when it changes nothing)
getUserTransactions(userId) ==
    /\ listing' = [listing EXCEPT ![userId] = {t \in transactions : t.userId = userId}]
    /\ listing' # listing
    /\ UNCHANGED <<now, store, transactions, nextTxId, call, observed, lastWrite, conv, authVars>>

\* the answer (or the error) has left and every upsert the call issued is
\* settled: nothing of the call remains
Respond(p) ==
    /\ call[p].pc = "done"
    /\ call[p].pending = {}
    /\ call' = [call EXCEPT ![p] = IdleCall]
    /\ UNCHANGED <<now, store, transactions, nextTxId, observed, lastWrite, listing, conv, authVars>>

Tick ==
    /\ now < MaxTime
    /\ now' = now + 1
    /\ UNCHANGED <<store, transactions, nextTxId, call, observed, lastWrite, listing, conv, authVars>>

(* ---------------------------- auth actions ---------------------------- *)
AuthFreeSlot(p) ==
    /\ authCall[p].pc = "idle"
    /\ \A q \in Calls : q < p => authCall[q].pc # "idle"

authUnchanged ==
    UNCHANGED <<now, store, transactions, nextTxId, call, observed, lastWrite, listing, conv>>

\* POST auth/login: AuthController.login
LoginRequest(p, email, password, nonce) ==
    /\ AuthFreeSlot(p)
    /\ authCall' = [authCall EXCEPT ![p] =
           [@ EXCEPT !.op = "login", !.pc = "validate", !.email = email,
                     !.password = password, !.nonce = nonce]]
    /\ UNCHANGED <<users, nextUserId, usedTokens>>
    /\ authUnchanged

\* validateUser: findUnique by email, then bcrypt.compare
ValidateUser(p) ==
    /\ authCall[p].pc = "validate"
    /\ LET c == authCall[p]
           found == findUnique(users, c.email)
       IN  authCall' = [authCall EXCEPT ![p] =
               IF found = {} \/ \A u \in found : ~compare(c.password, u.password)
               THEN [@ EXCEPT !.pc = "done", !.error = ErrInvalidCredentials]
               ELSE [@ EXCEPT !.pc = "checkNonce",
                              !.user = CHOOSE r \in {[id |-> u.id, email |-> u.email] : u \in found} : TRUE]]
    /\ UNCHANGED <<users, nextUserId, usedTokens>>
    /\ authUnchanged

\* await redisService.isTokenUsed(nonce) answers
CheckNonce(p) ==
    /\ authCall[p].pc = "checkNonce"
    /\ authCall' = [authCall EXCEPT ![p] =
           IF isTokenUsed(usedTokens, @.nonce, now)
           THEN [@ EXCEPT !.pc = "done", !.isTokenUsed = TRUE, !.error = ErrNonceUsed]
           ELSE [@ EXCEPT !.pc = "storeToken"]]
    /\ UNCHANGED <<users, nextUserId, usedTokens>>
    /\ authUnchanged

\* await redisService.storeToken(...) answers; the token is signed and returned
StoreToken(p) ==
    /\ authCall[p].pc = "storeToken"
    /\ usedTokens' = storeToken(usedTokens, authCall[p].nonce, authCall[p].user.id,
                                tokenTtl, now)
    /\ authCall' = [authCall EXCEPT ![p] =
           [@ EXCEPT !.pc = "done",
                     !.access_token = sign(authCall[p].user.id,
                                                   authCall[p].user.email, now)]]
    /\ UNCHANGED <<users, nextUserId>>
    /\ authUnchanged

\* POST auth/register: AuthController.register
RegisterRequest(p, email, password) ==
    /\ AuthFreeSlot(p)
    /\ authCall' = [authCall EXCEPT ![p] =
           [@ EXCEPT !.op = "register", !.pc = "findExisting", !.email = email,
                     !.password = password]]
    /\ UNCHANGED <<users, nextUserId, usedTokens>>
    /\ authUnchanged

\* variant: the lookup is skipped and every request goes on to the insert
FindExisting_noLookup(p) ==
    /\ authCall[p].pc = "findExisting"
    /\ authCall' = [authCall EXCEPT ![p] = [@ EXCEPT !.pc = "create"]]
    /\ UNCHANGED <<users, nextUserId, usedTokens>>
    /\ authUnchanged

\* await prisma.user.findUnique({where: {email}}) answers
FindExisting(p) ==
    /\ authCall[p].pc = "findExisting"
    /\ authCall' = [authCall EXCEPT ![p] =
           IF findUnique(users, @.email) # {}
           THEN [@ EXCEPT !.pc = "done", !.error = ErrConflict]
           ELSE [@ EXCEPT !.pc = "create"]]
    /\ UNCHANGED <<users, nextUserId, usedTokens>>
    /\ authUnchanged

\* bcrypt.hash, then prisma.user.create: the row is inserted and the token
\* signed, or the insert is rejected under User.email @unique
CreateUser(p) ==
    /\ authCall[p].pc = "create"
    /\ LET c == authCall[p]
           row == [id |-> nextUserId, email |-> c.email, password |-> hash(c.password)]
       IN  IF findUnique(users, c.email) # {}
           THEN /\ authCall' = [authCall EXCEPT ![p] =
                       [@ EXCEPT !.pc = "done", !.error = ErrUnique]]
                /\ UNCHANGED <<users, nextUserId>>
           ELSE /\ users' = users \cup {row}
                /\ nextUserId' = nextUserId + 1
                /\ authCall' = [authCall EXCEPT ![p] =
                       [@ EXCEPT !.pc = "done",
                                 !.user = [id |-> row.id, email |-> row.email],
                                 !.access_token = sign(row.id, row.email, now)]]
    /\ UNCHANGED usedTokens
    /\ authUnchanged

\* the answer of a login or register request has left
AuthRespond(p) ==
    /\ authCall[p].pc = "done"
    /\ authCall' = [authCall EXCEPT ![p] = IdleAuth]
    /\ UNCHANGED <<users, nextUserId, usedTokens>>
    /\ authUnchanged

(* --------------------------- specifications --------------------------- *)
\* no request is being handled (upserts of a failed batch may be in flight)
Quiet == \A q \in Calls : call[q].pc \in {"idle", "done"}

\* what the provider may quote
Quotes(currencies, values) == UNION {[D -> values] : D \in SUBSET currencies}

\* every upsert some call may have in flight
Upserts == UNION {call[p].pending : p \in Calls}

\* missing, zero and positive quotes for the whitelist and a code outside it
PlainQuotes == Quotes(ProviderCurrencies, 0..MaxRate)

\* The Rate Cache Manager, one GET exchange-rates request at a time.  The
\* provider answers in the fixed base, with any timestamp up to now and with
\* missing, zero and positive quotes, or fails; the store read may fail.
Next ==
    \/ Quiet /\ \E p \in Calls : GetRatesRequest(p)
    \/ \E p \in Calls : ReadDb(p)
    \/ \E p \in Calls : ReadDbFail(p)
    \/ \E p \in Calls : CheckCache(p)
    \/ \E p \in Calls, rates \in PlainQuotes, ts \in 0..now :
          ProviderRespond(p, baseCurrency, rates, ts, FALSE)
    \/ \E p \in Calls : ProviderFail(p)
    \/ \E p \in Calls, u \in Upserts : ApplyUpsert(p, u)
    \/ \E p \in Calls : FetchReturn(p)
    \/ \E p \in Calls : Respond(p)
    \/ Tick

Spec == Init /\ [][Next]_vars

\* negative, zero, positive and missing quotes for the whitelist
SignQuotes == Quotes(Supported, {-1, 0, 1})

\* A burst of concurrent GET exchange-rates requests: nothing orders the
\* requests, their provider answers or their upserts.  The provider answers
\* with either base and with quotes of any sign, or fails; upserts may fail.
\* The burst is momentary: the clock stands still.
NextStore ==
    \/ \E p \in Calls : GetRatesRequest(p)
    \/ \E p \in Calls : ReadDb(p)
    \/ \E p \in Calls : CheckCache(p)
    \/ \E p \in Calls, base \in ProviderBases, rates \in SignQuotes :
          ProviderRespond(p, base, rates, now, FALSE)
    \/ \E p \in Calls : ProviderFail(p)
    \/ \E p \in Calls, u \in Upserts : ApplyUpsert(p, u)
    \/ \E p \in Calls, u \in Upserts : UpsertFail(p, u)
    \/ \E p \in Calls : FetchReturn(p)
    \/ \E p \in Calls : Respond(p)

SpecStore == Init /\ [][NextStore]_vars

\* the requests a behaviour may hold rows for
MaxTransactions == 2

\* there is room for the row of one more conversion
Room ==
    Cardinality(transactions)
      + Cardinality({p \in Calls : call[p].pc \notin {"idle", "done"}}) < MaxTransactions

\* missing, zero and unit quotes for the whitelist
UnitQuotes == Quotes(Supported, {0, 1})

\* the currency pairs of the conversion requests: two inside the whitelist,
\* one with the source and one with the target outside it
ConvertPairs == {<<"USD", "EUR">>, <<"EUR", "USD">>, <<"XYZ", "EUR">>, <<"USD", "XYZ">>}

\* Conversions and transaction listings of two users, in any interleaving.
\* The provider answers in the fixed base with missing, zero or unit quotes,
\* or fails; the store read and the transaction insert may fail.  The clock
\* stands still.
NextConvert ==
    \/ Room /\ \E p \in Calls, u \in Users, ft \in ConvertPairs :
          ConvertRequest(p, u, ft[1], ft[2], MaxAmount)
    \/ \E p \in Calls : ReadDb(p)
    \/ \E p \in Calls : ReadDbFail(p)
    \/ \E p \in Calls : CheckCache(p)
    \/ \E p \in Calls, rates \in UnitQuotes :
          ProviderRespond(p, baseCurrency, rates, now, FALSE)
    \/ \E p \in Calls : ProviderFail(p)
    \/ \E p \in Calls, u \in Upserts : ApplyUpsert(p, u)
    \/ \E p \in Calls : FetchReturn(p)
    \/ \E p \in Calls : CreateTransaction(p)
    \/ \E p \in Calls : CreateTransactionFail(p)
    \/ \E p \in Calls : Respond(p)
    \/ \E u \in Users : getUserTransactions(u)

SpecConvert == Init /\ [][NextConvert]_vars

\* missing, zero and positive quotes for the whitelist
WhitelistQuotes == Quotes(Supported, 0..MaxRate)

\* Conversions from EUR to USD, one at a time, with the history of what the
\* provider has quoted (observed).  The provider answers in the fixed base
\* with missing, zero and positive quotes stamped now, or fails; the clock
\* runs, so the cache is hit fresh, refreshed, and fallen back to when stale.
NextProvenance ==
    \/ Quiet /\ Room /\ \E p \in Calls, u \in Users :
          ConvertRequest(p, u, "EUR", "USD", MaxAmount)
    \/ \E p \in Calls : ReadDb(p)
    \/ \E p \in Calls : CheckCache(p)
    \/ \E p \in Calls, rates \in WhitelistQuotes :
          ProviderRespond(p, baseCurrency, rates, now, TRUE)
    \/ \E p \in Calls : ProviderFail(p)
    \/ \E p \in Calls, u \in Upserts : ApplyUpsert(p, u)
    \/ \E p \in Calls : FetchReturn(p)
    \/ \E p \in Calls : CreateTransaction(p)
    \/ \E p \in Calls : Respond(p)
    \/ Tick

SpecProvenance == Init /\ [][NextProvenance]_vars

\* Logins and registrations in any interleaving, with two addresses, two
\* passwords and two nonces.  The clock stands still, so no nonce expires.
NextAuth ==
    \/ \E p \in Calls, email \in Emails, password \in Passwords, nonce \in Nonces :
          LoginRequest(p, email, password, nonce)
    \/ \E p \in Calls : ValidateUser(p)
    \/ \E p \in Calls : CheckNonce(p)
    \/ \E p \in Calls : StoreToken(p)
    \/ \E p \in Calls, email \in Emails, password \in Passwords :
          RegisterRequest(p, email, password)
    \/ \E p \in Calls : FindExisting(p)
    \/ \E p \in Calls : CreateUser(p)
    \/ \E p \in Calls : AuthRespond(p)

SpecAuth == Init /\ [][NextAuth]_vars

\* the users a token was issued for: those of the User table
Registered == {u.id : u \in users} \cap Users

\* nothing is being handled and every answer has left
AllIdle == \A q \in Calls : call[q].pc = "idle" /\ authCall[q].pc = "idle"

\* the provider quotes every whitelisted currency at 1
FullQuotes == {[c \in Supported |-> 1]}

\* The whole system, one request at a time: registrations, logins, rate
\* requests, and conversions and transaction listings of the registered
\* users.  The provider quotes every currency or fails; the transaction
\* insert may fail.  The clock stands still.
NextSystem ==
    \/ AllIdle /\ \E p \in Calls, email \in Emails :
          RegisterRequest(p, email, "password1")
    \/ \E p \in Calls : FindExisting(p)
    \/ \E p \in Calls : CreateUser(p)
    \/ AllIdle /\ \E p \in Calls, email \in Emails, nonce \in Nonces :
          LoginRequest(p, email, "password1", nonce)
    \/ \E p \in Calls : ValidateUser(p)
    \/ \E p \in Calls : CheckNonce(p)
    \/ \E p \in Calls : StoreToken(p)
    \/ \E p \in Calls : AuthRespond(p)
    \/ AllIdle /\ \E p \in Calls : GetRatesRequest(p)
    \/ AllIdle /\ Room /\ \E p \in Calls, u \in Registered :
          ConvertRequest(p, u, "EUR", "USD", MaxAmount)
    \/ \E p \in Calls : ReadDb(p)
    \/ \E p \in Calls : CheckCache(p)
    \/ \E p \in Calls, rates \in FullQuotes :
          ProviderRespond(p, baseCurrency, rates, now, FALSE)
    \/ \E p \in Calls : ProviderFail(p)
    \/ \E p \in Calls, u \in Upserts : ApplyUpsert(p, u)
    \/ \E p \in Calls : FetchReturn(p)
    \/ \E p \in Calls : CreateTransaction(p)
    \/ \E p \in Calls : CreateTransactionFail(p)
    \/ \E p \in Calls : Respond(p)
    \/ AllIdle /\ \E u \in Registered : getUserTransactions(u)

SpecSystem == Init /\ [][NextSystem]_vars

(* ---------------------- the arithmetic on its own --------------------- *)
\* the amounts converted there and back are 1..MaxArithAmount
MaxArithAmount == 3

\* one rate snapshot, a pair of whitelisted currencies and a positive amount
InitArith ==
    /\ now = 0
    /\ store = {}
    /\ transactions = {}
    /\ nextTxId = 1
    /\ call = [p \in Calls |-> IdleCall]
    /\ observed = {}
    /\ lastWrite = [k \in Keys |-> NoWrite]
    /\ listing = [u \in Users |-> {}]
    /\ users = {}
    /\ nextUserId = 1
    /\ usedTokens = EmptyMap
    /\ authCall = [p \in Calls |-> IdleAuth]
    /\ \E a \in Supported, b \in Supported, x \in 1..MaxArithAmount,
          rates \in Quotes(Supported, -1..MaxRate) :
          conv = [IdleConv EXCEPT !.stage = "start", !.a = a, !.b = b,
                                  !.x = FromInt(x), !.rates = rates]

\* lines 72-84 for (a, b, x): the rate lookup, the two-hop computation and the
\* exchange rate between the two currencies
ConvertThere ==
    /\ conv.stage = "start"
    /\ conv' = IF ~Truthy(conv.rates, conv.a) \/ ~Truthy(conv.rates, conv.b)
               THEN [conv EXCEPT !.stage = "unavailable"]
               ELSE [conv EXCEPT !.stage = "there",
                                 !.there = convertedAmount(conv.x, conv.rates[conv.a],
                                                           conv.rates[conv.b]),
                                 !.rate = exchangeRate(conv.rates[conv.a],
                                                       conv.rates[conv.b])]
    /\ UNCHANGED <<now, store, transactions, nextTxId, call, observed, lastWrite, listing, authVars>>

\* lines 72-81 again for (b, a, result), with the same snapshot
ConvertBack ==
    /\ conv.stage = "there"
    /\ conv' = [conv EXCEPT !.stage = "back",
                            !.back = convertedAmount(conv.there, conv.rates[conv.b],
                                                     conv.rates[conv.a])]
    /\ UNCHANGED <<now, store, transactions, nextTxId, call, observed, lastWrite, listing, authVars>>

NextArith == ConvertThere \/ ConvertBack

SpecArith == InitArith /\ [][NextArith]_vars

\* one rate snapshot, a pair of whitelisted currencies (the same one twice
\* included) and an amount that may be zero
InitSingle ==
    /\ now = 0
    /\ store = {}
    /\ transactions = {}
    /\ nextTxId = 1
    /\ call = [p \in Calls |-> IdleCall]
    /\ observed = {}
    /\ lastWrite = [k \in Keys |-> NoWrite]
    /\ listing = [u \in Users |-> {}]
    /\ users = {}
    /\ nextUserId = 1
    /\ usedTokens = EmptyMap
    /\ authCall = [p \in Calls |-> IdleAuth]
    /\ \E a \in Supported, b \in Supported, x \in 0..MaxArithAmount,
          rates \in Quotes(Supported, -1..MaxRate) :
          conv = [IdleConv EXCEPT !.stage = "start", !.a = a, !.b = b,
                                  !.x = FromInt(x), !.rates = rates]

\* a single conversion of each input
NextSingle == ConvertThere

SpecSingle == InitSingle /\ [][NextSingle]_vars

(* ------------------------- cache policy claims ------------------------ *)
\* the rows of a query result, whatever their order
RowsOf(rows) == {rows[i] : i \in DOMAIN rows}

\* m is the currency -> rate mapping of the rows: one entry per currency of
\* the rows, holding that row's rate
IsMappingOf(m, rows) ==
    /\ DOMAIN m = {r.currency : r \in RowsOf(rows)}
    /\ \A r \in RowsOf(rows) : m[r.currency] = r.rate

\* some snapshot was read and the newest is younger than the freshness window
FreshAt(rows, clock) ==
    /\ rows # <<>>
    /\ \E r \in RowsOf(rows) :
          /\ \A q \in RowsOf(rows) : q.lastUpdated <= r.lastUpdated
          /\ clock - r.lastUpdated < cacheExpirationTime

\* some snapshot was read and every one is at least a freshness window old
StaleAt(rows, clock) ==
    /\ rows # <<>>
    /\ \A r \in RowsOf(rows) : clock - r.lastUpdated >= cacheExpirationTime

\* C1: a call reads exactly the snapshots the Rate Store holds for the fixed
\* base; when the newest of them is less than the freshness window old at the
\* time of the check, the call sends no provider request and getExchangeRates
\* returns the currency -> rate mapping of those snapshots, unchanged.
C1_FreshCacheNoProvider ==
    [][\A p \in Calls :
          /\ (call[p].pc = "readDb" /\ call'[p].pc = "check")
                => RowsOf(call'[p].cachedRates)
                     = {r \in store : r.baseCurrency = baseCurrency}
          /\ (call[p].pc = "check" /\ call'[p] # call[p]
                /\ FreshAt(call[p].cachedRates, now))
                => /\ call'[p].pc # "fetch"
                   /\ call'[p].providerCalls = 0
                   /\ call'[p].error # ErrRates
                   /\ call'[p].rates.base = baseCurrency
                   /\ IsMappingOf(call'[p].rates.rates, call[p].cachedRates)
      ]_vars

C1_Witness ==
    \E p \in Calls :
        /\ call[p].pc = "done" /\ call[p].source = "cache"
        /\ call[p].providerCalls = 0
        /\ DOMAIN call[p].rates.rates = Supported

\* C2: when the snapshots a call read are all older than the freshness window
\* and its provider request fails, getExchangeRates does not fail: it returns
\* the currency -> rate mapping of those stale snapshots.
C2_StaleFallback ==
    [][\A p \in Calls :
          (call[p].pc = "fetch" /\ call'[p].providerFailed
             /\ StaleAt(call[p].cachedRates, now))
             => /\ call'[p].error # ErrRates
                /\ call'[p].rates.base = baseCurrency
                /\ IsMappingOf(call'[p].rates.rates, call[p].cachedRates)
      ]_vars

C2_Witness ==
    \E p \in Calls :
        /\ call[p].pc = "done" /\ call[p].providerFailed
        /\ call[p].error = None
        /\ call[p].rates.rates # EmptyMap

\* C3: when a call read no snapshot for the fixed base and its provider
\* request fails, getExchangeRates fails with the rates-unavailable error and
\* returns no rate set.
C3_EmptyAndProviderDown ==
    [][\A p \in Calls :
          (call[p].pc = "fetch" /\ call'[p].providerFailed
             /\ call[p].cachedRates = <<>>)
             => /\ call'[p].pc = "done"
                /\ call'[p].error = ErrRates
                /\ call'[p].rates = NoRates
      ]_vars

C3_Witness ==
    \E p \in Calls :
        /\ call[p].pc = "done" /\ call[p].providerFailed
        /\ call[p].providerCalls = 1
        /\ call[p].error = ErrRates

(* -------------------------- Rate Store claims ------------------------- *)
RowsAt(k) == {r \in store : <<r.baseCurrency, r.currency>> = k}

\* no call is being handled and no upsert is in flight
AllSettled == \A p \in Calls : call[p].pc \in {"idle", "done"} /\ call[p].pending = {}

\* C8: once every concurrent call has completed and every upsert is settled,
\* the Rate Store holds, for each (base, currency) pair, no snapshot if the
\* pair was never written and otherwise exactly one, whose rate and
\* lastUpdated are those of the last upsert applied to the pair.
C8_LastWriteWins ==
    AllSettled =>
        /\ \A r \in store : <<r.baseCurrency, r.currency>> \in Keys
        /\ \A k \in Keys :
              IF lastWrite[k] = NoWrite
              THEN RowsAt(k) = {}
              ELSE /\ Cardinality(RowsAt(k)) = 1
                   /\ \A r \in RowsAt(k) :
                         /\ r.rate = lastWrite[k].rate
                         /\ r.lastUpdated = lastWrite[k].lastUpdated

\* two calls that overlapped: each found no snapshot, each fetched, and the
\* two batches wrote different rates to the same pair
C8_Witness ==
    /\ AllSettled
    /\ \E p, q \in Calls :
          /\ call[p].source = "provider" /\ call[q].source = "provider"
          /\ call[p].rates.base = baseCurrency /\ call[q].rates.base = baseCurrency
          /\ "EUR" \in DOMAIN call[p].rates.rates
          /\ "EUR" \in DOMAIN call[q].rates.rates
          /\ call[p].rates.rates["EUR"] # call[q].rates.rates["EUR"]
    /\ Cardinality(RowsAt(<<baseCurrency, "EUR">>)) = 1

\* C9 (as claimed): at most one snapshot per (baseCurrency, currency) pair,
\* and every stored snapshot has rate > 0, whatever the provider quotes.
C9_UniqueAndPositive ==
    /\ \A r1, r2 \in store :
          (r1.baseCurrency = r2.baseCurrency /\ r1.currency = r2.currency) => r1 = r2
    /\ \A r \in store : r.rate > 0

(* ------------------------- conversion claims -------------------------- *)
\* the convertCurrency calls that return a result in this step
Returning == {p \in Calls : /\ call[p].op = "convert" /\ call[p].pc # "done"
                            /\ call'[p].pc = "done" /\ call'[p].error = None}

\* the calls that end with an error in this step
Failing == {p \in Calls : /\ call[p].pc # "done"
                          /\ call'[p].pc = "done" /\ call'[p].error # None}

\* C4: the Transaction table only grows, and it grows exactly when a
\* convertCurrency call returns a result, by the one record whose id the call
\* returns; a step in which a call fails (unsupported currency, rates
\* unavailable, currency missing from the mapping) adds none.  Hence the
\* number of records always equals the number of successful calls.
C4_OneRecordPerSuccess ==
    [][/\ transactions \subseteq transactions'
       /\ Cardinality(transactions' \ transactions) = Cardinality(Returning)
       /\ \A p \in Returning :
             \E t \in transactions' \ transactions :
                 t.id = call'[p].result.id /\ t.userId = call'[p].userId
       /\ Failing # {} => transactions' = transactions
      ]_vars

\* one conversion has returned its record, another has failed in the rate
\* lookup, and there is one record
C4_Witness ==
    /\ Cardinality(transactions) = 1
    /\ \E p, q \in Calls :
          /\ call[p].op = "convert" /\ call[p].pc = "done" /\ call[p].error = None
          /\ call[q].op = "convert" /\ call[q].pc = "done"
          /\ call[q].error \in {ErrNoRate, ErrRates}

\* C5: a convertCurrency call whose fromCurrency or toCurrency is outside
\* the whitelist has failed with the unsupported-currency error without
\* reading the store or calling the provider, and no Transaction record
\* carries a currency outside the whitelist.
C5_UnsupportedRejected ==
    /\ \A p \in Calls :
          (call[p].op = "convert"
             /\ (call[p].fromCurrency \notin Supported \/ call[p].toCurrency \notin Supported))
          => /\ call[p].pc = "done"
             /\ call[p].error = ErrUnsupported
             /\ call[p].providerCalls = 0
             /\ call[p].rates = NoRates
             /\ call[p].result = NoResult
    /\ \A t \in transactions :
          t.fromCurrency \in Supported /\ t.toCurrency \in Supported

\* rejected with rates in the store, and rejected with the store empty
C5_Witness ==
    /\ store # {}
    /\ \E p \in Calls : call[p].toCurrency = "XYZ" /\ call[p].error = ErrUnsupported
    /\ \E p \in Calls : call[p].fromCurrency = "XYZ" /\ call[p].error = ErrUnsupported

\* C7: a listing holds only rows of the Transaction table owned by the user
\* it was made for; the row a successful conversion created is owned by the
\* user who asked for it; and a listing made for a user holds every row that
\* user owns at that time.
C7_ListingIsOwnRows ==
    /\ [](\A u \in Users : \A t \in listing[u] : t.userId = u /\ t \in transactions)
    /\ [](\A p \in Calls :
             (call[p].op = "convert" /\ call[p].pc = "done" /\ call[p].error = None)
             => \E t \in transactions :
                    t.id = call[p].result.id /\ t.userId = call[p].userId)
    /\ [][\A u \in Users :
             listing'[u] # listing[u]
             => listing'[u] = {t \in transactions : t.userId = u}]_vars

\* both users have converted and each has listed their own row
C7_Witness ==
    /\ \E t \in listing[1] : t.userId = 1
    /\ \E t \in listing[2] : t.userId = 2
    /\ Cardinality(transactions) = 2

(* -------------------------- provenance claim -------------------------- *)
\* C6: every rate in a mapping getExchangeRates has returned is a value the
\* provider quoted for that currency, in this call or an earlier one; so are
\* the fromRate and toRate a conversion computes with, and the rate of every
\* Transaction record is the quotient of two such quotes.
C6_OnlyProviderRates ==
    /\ \A p \in Calls :
          /\ \A c \in DOMAIN call[p].rates.rates :
                <<c, call[p].rates.rates[c]>> \in observed
          /\ call[p].fromRate # 0 => <<call[p].fromCurrency, call[p].fromRate>> \in observed
          /\ call[p].toRate # 0 => <<call[p].toCurrency, call[p].toRate>> \in observed
          /\ (call[p].pc = "create" \/ call[p].result # NoResult)
                => call[p].fromRate # 0 /\ call[p].toRate # 0
    /\ \A t \in transactions :
          \E f \in observed, g \in observed :
              /\ f[1] = t.fromCurrency /\ g[1] = t.toCurrency
              /\ f[2] # 0 /\ g[2] # 0
              /\ t.rate = RatDiv(FromInt(g[2]), FromInt(f[2]))

\* a conversion answered from stale snapshots after the provider failed,
\* computed with two different rates
C6_Witness ==
    \E p \in Calls :
        /\ call[p].pc = "done" /\ call[p].source = "fallback"
        /\ call[p].error = None
        /\ call[p].fromRate # call[p].toRate
        /\ \E t \in transactions : t.id = call[p].result.id

(* --------------------------- arithmetic claims ------------------------ *)
\* C10: converting a positive amount x from a to b and the result back from
\* b to a, with the same rate snapshot holding both currencies, yields x
\* again (exactly, in rational arithmetic).
C10_RoundTrip ==
    conv.stage = "back" => conv.back = conv.x

C10_Witness ==
    /\ conv.stage = "back"
    /\ conv.a # conv.b
    /\ conv.rates[conv.a] # conv.rates[conv.b]
    /\ conv.there # conv.x
    /\ conv.there[2] # 1

(* ------------------------- rate lookup claims ------------------------- *)
\* the currencies of the request of p that the mapping m does not hold
Absent(p, m) == {call[p].fromCurrency, call[p].toCurrency} \ DOMAIN m

\* C11: when getExchangeRates returns to a convertCurrency call a mapping that
\* lacks fromCurrency or toCurrency, the call ends there with the
\* rate-unavailable error, has no result and creates no Transaction record;
\* and no call reaches the arithmetic with a currency missing from its mapping.
C11_MissingRateRejected ==
    /\ [][\A p \in Calls :
             (call[p].op = "convert" /\ call[p].source = None
                /\ call'[p].source # None /\ Absent(p, call'[p].rates.rates) # {})
             => /\ call'[p].pc = "done"
                /\ call'[p].error = ErrNoRate
                /\ call'[p].result = NoResult
                /\ transactions' = transactions
                /\ nextTxId' = nextTxId
         ]_vars
    /\ [](\A p \in Calls :
             (call[p].pc = "create" \/ call[p].result # NoResult)
             => Absent(p, call[p].rates.rates) = {})

\* the provider quoted the source currency only, and the conversion was
\* refused for want of the target rate
C11_Witness ==
    /\ transactions = {}
    /\ \E p \in Calls :
          /\ call[p].op = "convert" /\ call[p].pc = "done"
          /\ call[p].source = "provider"
          /\ call[p].error = ErrNoRate
          /\ call[p].fromCurrency \in DOMAIN call[p].rates.rates
          /\ call[p].toCurrency \notin DOMAIN call[p].rates.rates

(* ------------------------ recorded result claim ----------------------- *)
\* C12: when convertCurrency(userId, from, to, amount) has returned a result,
\* exactly one Transaction record carries the returned id; it has that userId,
\* fromCurrency, toCurrency and amount, and its convertedAmount and rate are
\* the returned convertedAmount and exchangeRate, which are
\* (amount / fromRate) * toRate and toRate / fromRate for the rates of the
\* mapping getExchangeRates returned to that call.
C12_RecordMatchesResult ==
    \A p \in Calls :
        (call[p].op = "convert" /\ call[p].pc = "done" /\ call[p].error = None)
        => LET c == call[p]
               m == c.rates.rates
           IN  /\ c.fromCurrency \in DOMAIN m /\ c.toCurrency \in DOMAIN m
               /\ m[c.fromCurrency] # 0
               /\ c.result.exchangeRate = Rat(m[c.toCurrency], m[c.fromCurrency])
               /\ c.result.convertedAmount
                    = Rat(c.amount * m[c.toCurrency], m[c.fromCurrency])
               /\ c.result.fromCurrency = c.fromCurrency
               /\ c.result.toCurrency = c.toCurrency
               /\ c.result.amount = c.amount
               /\ Cardinality({t \in transactions : t.id = c.result.id}) = 1
               /\ \A t \in transactions :
                     t.id = c.result.id
                     => /\ t.userId = c.userId
                        /\ t.fromCurrency = c.fromCurrency
                        /\ t.toCurrency = c.toCurrency
                        /\ t.amount = c.amount
                        /\ t.convertedAmount = c.result.convertedAmount
                        /\ t.rate = c.result.exchangeRate

\* a conversion computed from freshly fetched rates EUR = 2, USD = 1: the
\* record of user 2 holds the rate 1/2
C12_Witness ==
    \E p \in Calls :
        /\ call[p].op = "convert" /\ call[p].pc = "done" /\ call[p].error = None
        /\ call[p].source = "provider"
        /\ call[p].userId = 2
        /\ call[p].result.exchangeRate = <<1, 2>>
        /\ \E t \in transactions :
              t.id = call[p].result.id /\ t.rate = <<1, 2>> /\ t.userId = 2

(* ------------------------- HTTP status claims ------------------------- *)
\* C13 (as claimed): a convert request with a currency outside the whitelist
\* is answered with HTTP 400, a rate-unavailable failure with a server error
\* (5xx), and the two answers differ.
C13_ClientVsServerError ==
    \A p \in Calls :
        (call[p].op = "convert" /\ call[p].pc = "done")
        => /\ call[p].error = ErrUnsupported => httpStatus(call[p].error) = 400
           /\ call[p].error = ErrNoRate => httpStatus(call[p].error) >= 500
           /\ \A q \in Calls :
                 (call[p].error = ErrUnsupported /\ call[q].error = ErrNoRate)
                 => <<httpStatus(call[p].error), httpMessage(call[p].error)>>
                      # <<httpStatus(call[q].error), httpMessage(call[q].error)>>

\* C14 (as claimed): a GET exchange-rates request that could obtain neither
\* fresh nor stale rates is answered with HTTP 503.
C14_ServiceUnavailable ==
    \A p \in Calls :
        (call[p].op = "rates" /\ call[p].pc = "done" /\ call[p].error = ErrRates)
        => httpStatus(call[p].error) = 503

(* ------------------------ authentication claims ----------------------- *)
\* C15 (as claimed): a login with valid credentials whose nonce is already
\* stored as used is answered with HTTP 401 and gets no access token.
C15_ReusedNonceUnauthorized ==
    \A p \in Calls :
        (authCall[p].op = "login" /\ authCall[p].pc = "done" /\ authCall[p].isTokenUsed)
        => /\ httpStatus(authCall[p].error) = 401
           /\ authCall[p].access_token = NoToken

\* C16: a register request that finds its email in the User table ends with
\* the conflict error (HTTP 409), adds no row and gets no access token; no
\* failed request gets a token; and the table never holds two rows with the
\* same email.
C16_DuplicateEmailConflict ==
    /\ [][\A p \in Calls :
             (authCall[p].pc = "findExisting" /\ authCall'[p] # authCall[p]
                /\ \E u \in users : u.email = authCall[p].email)
             => /\ authCall'[p].pc = "done"
                /\ authCall'[p].error = ErrConflict
                /\ httpStatus(authCall'[p].error) = 409
                /\ authCall'[p].access_token = NoToken
                /\ users' = users
         ]_vars
    /\ [](\A p \in Calls : authCall[p].error # None => authCall[p].access_token = NoToken)
    /\ [](\A u1, u2 \in users : u1.email = u2.email => u1 = u2)

\* both addresses are registered, and a second registration of one of them,
\* with another password, was refused and left the row as it was
C16_Witness ==
    /\ Cardinality(users) = 2
    /\ \E p \in Calls :
          /\ authCall[p].op = "register" /\ authCall[p].pc = "done"
          /\ authCall[p].error = ErrConflict
          /\ \E u \in users : u.email = authCall[p].email
                              /\ u.password # hash(authCall[p].password)

(* ----------------------- zero and same-currency ----------------------- *)
\* both rates of the conversion are in the snapshot (and usable)
BothAvailable == Truthy(conv.rates, conv.a) /\ Truthy(conv.rates, conv.b)

\* C17: a conversion of the amount 0 between two currencies whose rates are
\* available goes through and yields convertedAmount 0, whatever the rates.
C17_ZeroAmount ==
    (conv.stage # "start" /\ conv.x = FromInt(0) /\ BothAvailable)
    => /\ conv.stage = "there"
       /\ conv.there = FromInt(0)

\* zero converted between two different currencies with different rates, one
\* of them negative
C17_Witness ==
    /\ conv.stage = "there" /\ conv.x = FromInt(0)
    /\ conv.a # conv.b
    /\ conv.rates[conv.a] = -1 /\ conv.rates[conv.b] = MaxRate
    /\ conv.there = FromInt(0)

\* C18: a conversion from a currency whose rate is available to the same
\* currency yields convertedAmount = amount and exchangeRate = 1.
C18_SameCurrency ==
    (conv.stage # "start" /\ conv.a = conv.b /\ Truthy(conv.rates, conv.a))
    => /\ conv.stage = "there"
       /\ conv.there = conv.x
       /\ conv.rate = FromInt(1)

\* EUR to EUR at a rate that is not 1, for an amount the rate does not divide
C18_Witness ==
    /\ conv.stage = "there"
    /\ conv.a = "EUR" /\ conv.b = "EUR"
    /\ conv.rates["EUR"] = 2
    /\ conv.x = FromInt(MaxArithAmount)
    /\ conv.rate = FromInt(1)

(* ------------------------- transaction log claim ---------------------- *)
\* C19: no step of the system (rate request, conversion, listing, login,
\* registration) removes a Transaction record or changes one: every record
\* of a state is in the next state as it is, and no record of the next state
\* shares its id with a different record.
C19_TransactionsImmutable ==
    [][/\ \A t \in transactions : t \in transactions'
       /\ \A t \in transactions : \A t2 \in transactions' : t2.id = t.id => t2 = t
      ]_vars

\* a user holds two records; between the two conversions the user listed the
\* first, and a rate request, a second registration and a login went by
C19_Witness ==
    /\ Cardinality(transactions) = MaxTransactions
    /\ \E u \in Users :
          /\ \A t \in transactions : t.userId = u
          /\ Cardinality(listing[u]) = 1
    /\ Cardinality(users) = 2
    /\ usedTokens # EmptyMap

(* --------------------------- store read claim ------------------------- *)
\* C20: when the read of the snapshots fails (the call leaves the read without
\* a query result), getExchangeRates fails at once with the rates-unavailable
\* error: it returns no rate set, and the call has sent no provider request
\* and sends none afterwards.
C20_ReadFailureNoFetch ==
    /\ [][\A p \in Calls :
             (call[p].pc = "readDb" /\ call'[p].pc # "readDb" /\ call'[p].pc # "check")
             => /\ call'[p].pc = "done"
                /\ call'[p].error = ErrRates
                /\ call'[p].rates = NoRates
                /\ call'[p].providerCalls = 0
                /\ store' = store
         ]_vars
    /\ [][\A p \in Calls :
             call[p].pc = "done" => call'[p].pc \in {"done", "idle"}]_vars

\* the read failed although the Rate Store holds a snapshot of every
\* currency, and the call ended without asking the provider
C20_Witness ==
    /\ {r.currency : r \in store} = Supported
    /\ \E p \in Calls :
          /\ call[p].op = "rates" /\ call[p].pc = "done"
          /\ call[p].error = ErrRates
          /\ call[p].providerCalls = 0
          /\ ~call[p].providerFailed

(* ------------------------- refresh claims ----------------------------- *)
\* C21 (as claimed): when a call returns the rates it fetched, the mapping
\* holds whitelisted currencies only, and the Rate Store holds at that moment,
\* under the fixed base currency and for each returned currency, a snapshot
\* with the returned rate and the timestamp of the fetch; and the Rate Store
\* never holds a currency outside the whitelist.
C21_FetchedRatesStored ==
    /\ [][\A p \in Calls :
             (call[p].pc = "upsert" /\ call'[p].source = "provider")
             => LET m == call'[p].rates.rates
                IN  /\ DOMAIN m \subseteq Supported
                    /\ \A c \in DOMAIN m :
                          \E r \in store' :
                              /\ r.baseCurrency = baseCurrency
                              /\ r.currency = c
                              /\ r.rate = m[c]
                              /\ r.lastUpdated = call'[p].rates.timestamp
         ]_vars
    /\ [](\A r \in store : r.currency \in Supported)

\* C22: a getExchangeRates call sends at most one provider request: none when
\* it answers from a fresh cache or when the store read failed, exactly one
\* otherwise; and the step in which the request fails ends the call, with the
\* fallback answer or the error.
C22_SingleProviderRequest ==
    /\ [](\A p \in Calls :
             /\ call[p].providerCalls <= 1
             /\ call[p].pc \in {"idle", "readDb", "check"} => call[p].providerCalls = 0
             /\ call[p].pc \in {"fetch", "upsert"} => call[p].providerCalls = 1
             /\ (call[p].op = "rates" /\ call[p].pc = "done")
                => call[p].providerCalls =
                     IF call[p].source = "cache" THEN 0
                     ELSE IF call[p].source \in {"provider", "fallback"} THEN 1
                     ELSE IF call[p].providerFailed THEN 1 ELSE 0)
    /\ [][\A p \in Calls :
             (call[p].pc = "fetch" /\ call'[p] # call[p] /\ call'[p].pc # "upsert")
             => /\ call'[p].pc = "done"
                /\ call'[p].providerFailed
                /\ call'[p].providerCalls = 1
                /\ call'[p].source = "fallback" \/ call'[p].error = ErrRates
         ]_vars

\* over time the service has answered from the provider, then from the fresh
\* cache, and then, the cache being stale and the provider down, from the
\* stale snapshots after its single request
C22_Witness ==
    /\ now = MaxTime
    /\ \E p, q \in Calls :
          /\ call[p].pc = "done" /\ call[p].source = "cache" /\ call[p].providerCalls = 0
          /\ call[q].pc = "done" /\ call[q].source = "fallback" /\ call[q].providerCalls = 1

\* C23: when the provider's answer holds no usable rate of a supported
\* currency, the fetch still counts as successful: no upsert is issued, and
\* getExchangeRates returns the empty fetched set - not the cached snapshots,
\* and not an error - leaving the Rate Store as it is.
C23_EmptyFetchSucceeds ==
    /\ [](\A p \in Calls :
             (call[p].pc = "upsert" /\ call[p].fetched.rates = EmptyMap)
             => call[p].pending = {})
    /\ [][\A p \in Calls :
             (call[p].pc = "upsert" /\ call[p].fetched.rates = EmptyMap
                /\ call'[p] # call[p])
             => /\ call'[p].pc = "done"
                /\ call'[p].error = None
                /\ call'[p].source = "provider"
                /\ call'[p].rates.rates = EmptyMap
                /\ call'[p].rates.base = call[p].fetched.base
                /\ store' = store
         ]_vars

\* the Rate Store holds stale snapshots of every currency, and the call has
\* returned the empty set the provider gave
C23_Witness ==
    /\ {r.currency : r \in store} = Supported
    /\ \A r \in store : now - r.lastUpdated >= cacheExpirationTime
    /\ \E p \in Calls :
          /\ call[p].op = "rates" /\ call[p].pc = "done"
          /\ call[p].source = "provider"
          /\ call[p].rates.rates = EmptyMap
          /\ call[p].error = None

(* ------------------------- storage failure claim ---------------------- *)
\* C24: when the insert of the Transaction fails (the call leaves the create
\* step and the table has not grown), convertCurrency fails with the storage
\* error, returns no result and leaves the table as it was; the call is over
\* after that one attempt, so it never creates a record later.
C24_CreateFailurePropagates ==
    /\ [][\A p \in Calls :
             (call[p].pc = "create" /\ call'[p].pc # "create"
                /\ transactions' = transactions)
             => /\ call'[p].pc = "done"
                /\ call'[p].error = ErrStorage
                /\ call'[p].result = NoResult
                /\ nextTxId' = nextTxId
         ]_vars
    /\ [][\A p \in Calls :
             (call[p].pc = "done" /\ call[p].error = ErrStorage)
             => /\ call'[p].pc \in {"done", "idle"}
                /\ transactions' = transactions \/ call'[p] = call[p]
         ]_vars
    /\ [](\A p \in Calls :
             call[p].error = ErrStorage
             => /\ call[p].result = NoResult
                /\ \A t \in transactions : t.id # call[p].result.id)

\* the insert failed for one conversion and succeeded for another of the
\* same user: one record, not two
C24_Witness ==
    /\ Cardinality(transactions) = 1
    /\ \E p, q \in Calls :
          /\ call[p].pc = "done" /\ call[p].error = ErrStorage
          /\ call[p].source # None
          /\ call[q].pc = "done" /\ call[q].error = None /\ call[q].op = "convert"
          /\ call[q].userId = call[p].userId

(* --------------------------- freshness claim -------------------------- *)
\* C25 (as claimed): once a call has fetched from the provider at time t and
\* stored at least one rate, no later call that starts less than the
\* freshness window after t goes to the provider.
C25_FreshAfterFetch ==
    \A p, q \in Calls :
        ~ (/\ call[p].pc = "done" /\ call[p].source = "provider"
           /\ call[p].rates.rates # EmptyMap
           /\ call[q].pc = "fetch"
           /\ now - call[p].fetchedAt < cacheExpirationTime)

(* ----------------------- concurrent auth claims ----------------------- *)
\* C26 (as claimed): of the login requests that carry the same nonce, at most
\* one has obtained an access token.
C26_NonceAcceptedOnce ==
    \A p, q \in Calls :
        (/\ p # q
         /\ authCall[p].op = "login" /\ authCall[q].op = "login"
         /\ authCall[p].nonce = authCall[q].nonce
         /\ authCall[p].access_token # NoToken)
        => authCall[q].access_token = NoToken

\* C30 (as claimed): a register request that fails because its email is
\* taken fails with the conflict error (HTTP 409), whether the other
\* registration came before it or overlapped with it.
C30_ConcurrentRegisterConflict ==
    \A p \in Calls :
        (authCall[p].op = "register" /\ authCall[p].pc = "done"
           /\ authCall[p].error # None)
        => /\ authCall[p].error = ErrConflict
           /\ httpStatus(authCall[p].error) = 409

(* ----------------------- cache coherence claims ----------------------- *)
\* C27 (as claimed): when getExchangeRates answers from the snapshots it
\* read (fresh hit or fallback), those snapshots all carry the same
\* lastUpdated, that of the newest: the answer holds rates of one fetch only.
C27_OneFetchPerAnswer ==
    [][\A p \in Calls :
          (call[p].source = None /\ call'[p].source \in {"cache", "fallback"})
          => \A r1, r2 \in RowsOf(call[p].cachedRates) :
                r1.lastUpdated = r2.lastUpdated
      ]_vars

C29_StoreFrame ==
    /\ [][/\ \A r \in store :
                \E r2 \in store' :
                    r2.baseCurrency = r.baseCurrency /\ r2.currency = r.currency
          /\ store' # store
                => \E p \in Calls :
                      /\ call[p].providerCalls = 1 /\ ~call[p].providerFailed
                      /\ call[p].fetchedAt >= 0
                      /\ \E u \in call[p].pending :
                            /\ call'[p].pending = call[p].pending \ {u}
                            /\ u \in store'
          /\ \A p \in Calls :
                (call[p].pc # "done" /\ call'[p].pc = "done"
                   /\ (call'[p].providerCalls = 0 \/ call'[p].providerFailed))
                => store' = store
         ]_vars
    /\ [](\A p \in Calls :
             (call[p].providerCalls = 0 \/ call[p].providerFailed)
             => call[p].pending = {})

\* the Rate Store holds a snapshot of every currency; one call has fallen back
\* to them after the provider failed, another failed to read them
C29_Witness ==
    /\ {r.currency : r \in store} = Supported
    /\ \E p, q \in Calls :
          /\ call[p].pc = "done" /\ call[p].source = "fallback" /\ call[p].providerFailed
          /\ call[q].pc = "done" /\ call[q].error = ErrRates /\ call[q].providerCalls = 0

====
